---- MODULE Spec2Model ----
(***************************************************************************)
(* Model of fmu.ensemble.realization: the ScratchRealization class (file   *)
(* registry, parameters.txt reader, cached Eclipse summary handle) and the *)
(* module-level function parse_number.                                     *)
(*                                                                         *)
(* Text is a sequence of one-character strings, so that int() and float()  *)
(* are modelled by the grammar they accept and not by fiat.                *)
(***************************************************************************)
EXTENDS Integers, Sequences, FiniteSets, TLC

VARIABLES
    path,        \* the path argument handed to ScratchRealization(...)
    topdir,      \* names of the files present directly in the directory
    modeldir,    \* listing of <dir>/eclipse/model, in the order the OS returns it
    paramlines,  \* content of parameters.txt: sequence of [key, raw] lines
    constructed, \* TRUE when the caller holds a ScratchRealization instance
    index,       \* self.index
    files,       \* self.files, the registry: a sequence of records
    eclsum,      \* self._eclsum: NoneH or the handle of a decoded file
    ndecodes,    \* number of calls made to ert.ecl.EclSum(...)
    missed,      \* the file a get_eclsum call last found missing, if any
    atctor,      \* content of the directory when the constructor ran
    last,        \* what the latest operation was given and what it gave back
    value,       \* parse_number: the argument
    presult      \* parse_number: the outcome

vars == <<path, topdir, modeldir, paramlines, constructed, index, files,
          eclsum, ndecodes, missed, atctor, last, value, presult>>

realvars == <<path, topdir, modeldir, paramlines, constructed, index, files,
              eclsum, ndecodes, missed, atctor, last>>

(***************************************************************************)
(* Bounds                                                                  *)
(***************************************************************************)
\* longest enumerated text handed to parse_number
MaxLen == 3
\* most lines of an enumerated parameters.txt
MaxLines == 2
\* cap on the decode counter
MaxDecodes == 3

(***************************************************************************)
(* Python values                                                           *)
(***************************************************************************)
IntV(n) == [kind |-> "int", v |-> n, s |-> <<>>, cls |-> "", num |-> 0, den |-> 1]
BoolV(n) == [kind |-> "bool", v |-> n, s |-> <<>>, cls |-> "", num |-> 0, den |-> 1]
FloatV(n, d) ==
    [kind |-> "float", v |-> 0, s |-> <<>>, cls |-> "finite", num |-> n, den |-> d]
NonFiniteV(c) ==
    [kind |-> "float", v |-> 0, s |-> <<>>, cls |-> c, num |-> 0, den |-> 1]
TextV(t) == [kind |-> "str", v |-> 0, s |-> t, cls |-> "", num |-> 0, den |-> 1]
NoneV == [kind |-> "none", v |-> 0, s |-> <<>>, cls |-> "", num |-> 0, den |-> 1]
ListV == [kind |-> "list", v |-> 0, s |-> <<>>, cls |-> "", num |-> 0, den |-> 1]

\* outcome of a call: a returned value or a raised exception
Return(x) == [raised |-> "none", ret |-> x]
Raise(e) == [raised |-> e, ret |-> NoneV]

Digit == {"0", "1", "2", "3", "4", "5", "6", "7", "8", "9"}
DigitVal(c) ==
    CASE c = "0" -> 0 [] c = "1" -> 1 [] c = "2" -> 2 [] c = "3" -> 3
      [] c = "4" -> 4 [] c = "5" -> 5 [] c = "6" -> 6 [] c = "7" -> 7
      [] c = "8" -> 8 [] c = "9" -> 9

RECURSIVE DigitsValue(_)
DigitsValue(t) ==
    IF t = <<>> THEN 0
    ELSE 10 * DigitsValue(SubSeq(t, 1, Len(t) - 1)) + DigitVal(t[Len(t)])

RECURSIVE Pow10(_)
Pow10(k) == IF k = 0 THEN 1 ELSE 10 * Pow10(k - 1)

IsDigits(t) == Len(t) >= 1 /\ \A i \in 1..Len(t) : t[i] \in Digit
AllDigits(t) == \A i \in 1..Len(t) : t[i] \in Digit

\* int() and float() ignore surrounding whitespace
RECURSIVE LStrip(_)
LStrip(t) == IF t # <<>> /\ Head(t) = " " THEN LStrip(Tail(t)) ELSE t
RECURSIVE RStrip(_)
RStrip(t) ==
    IF t # <<>> /\ t[Len(t)] = " " THEN RStrip(SubSeq(t, 1, Len(t) - 1)) ELSE t
Strip(t) == RStrip(LStrip(t))

HasSign(t) == t # <<>> /\ Head(t) \in {"+", "-"}
Unsigned(t) == IF HasSign(t) THEN Tail(t) ELSE t
SignOf(t) == IF t # <<>> /\ Head(t) = "-" THEN -1 ELSE 1

\* the text is an integer literal: optional sign, one or more digits
IntParses(t) == IsDigits(Unsigned(Strip(t)))
IntValue(t) == SignOf(Strip(t)) * DigitsValue(Unsigned(Strip(t)))

\* position of the first "." in t, 0 when there is none
DotAt(t) ==
    IF \E i \in 1..Len(t) : t[i] = "."
    THEN CHOOSE i \in 1..Len(t) : t[i] = "." /\ \A j \in 1..(i - 1) : t[j] # "."
    ELSE 0
IntPart(t) == IF DotAt(t) = 0 THEN t ELSE SubSeq(t, 1, DotAt(t) - 1)
FracPart(t) == IF DotAt(t) = 0 THEN <<>> ELSE SubSeq(t, DotAt(t) + 1, Len(t))

\* a decimal literal without exponent: digits, at most one ".", a digit somewhere
DecimalParses(u) ==
    /\ AllDigits(IntPart(u))
    /\ AllDigits(FracPart(u))
    /\ Len(IntPart(u)) + Len(FracPart(u)) >= 1
NonFiniteWord(u) ==
    u \in {<<"i", "n", "f">>, <<"n", "a", "n">>,
           <<"i", "n", "f", "i", "n", "i", "t", "y">>}
FloatParses(t) ==
    DecimalParses(Unsigned(Strip(t))) \/ NonFiniteWord(Unsigned(Strip(t)))

\* a real is kept as num/den, den the smallest power of ten that fits
RECURSIVE Canon(_, _)
Canon(n, d) ==
    IF d > 1 /\ n % 10 = 0 THEN Canon(n \div 10, d \div 10) ELSE FloatV(n, d)

FloatValue(t) ==
    LET u == Unsigned(Strip(t))
        sg == SignOf(Strip(t))
    IN  IF NonFiniteWord(u)
        THEN IF u = <<"n", "a", "n">> THEN NonFiniteV("nan")
             ELSE IF sg = -1 THEN NonFiniteV("-inf") ELSE NonFiniteV("inf")
        ELSE Canon(sg * (DigitsValue(IntPart(u)) * Pow10(Len(FracPart(u)))
                         + DigitsValue(FracPart(u))),
                   Pow10(Len(FracPart(u))))

\* truncation toward zero
Trunc(n, d) == IF n >= 0 THEN n \div d ELSE -((-n) \div d)

\* the builtin int(x)
py_int(x) ==
    CASE x.kind \in {"int", "bool"} -> Return(IntV(x.v))
      [] x.kind = "float" ->
            IF x.cls = "finite" THEN Return(IntV(Trunc(x.num, x.den)))
            ELSE IF x.cls = "nan" THEN Raise("ValueError")
            ELSE Raise("OverflowError")
      [] x.kind = "str" ->
            IF IntParses(x.s) THEN Return(IntV(IntValue(x.s)))
            ELSE Raise("ValueError")
      [] OTHER -> Raise("TypeError")

\* the builtin float(x)
py_float(x) ==
    CASE x.kind \in {"int", "bool"} -> Return(FloatV(x.v, 1))
      [] x.kind = "float" -> Return(x)
      [] x.kind = "str" ->
            IF FloatParses(x.s) THEN Return(FloatValue(x.s))
            ELSE Raise("ValueError")
      [] OTHER -> Raise("TypeError")

\* isinstance(value, int): bool is a subclass of int
IsInstanceInt(x) == x.kind \in {"int", "bool"}
IsInstanceFloat(x) == x.kind = "float"

\* int(value) == value, for a float value and the integer int(value) gave
IntEqFloat(i, x) == x.cls = "finite" /\ i.v * x.den = x.num

\* a plausible slip: the float branch applied to parsed text as well
parse_number_collapsing(x) ==
    IF IsInstanceInt(x) THEN Return(x)
    ELSE LET f == IF IsInstanceFloat(x) THEN Return(x) ELSE py_float(x)
         IN  IF f.raised # "none" THEN Return(x)
             ELSE IF f.ret.cls = "finite" /\ f.ret.den = 1
                  THEN Return(IntV(f.ret.num))
                  ELSE f

parse_number(x) ==
    IF IsInstanceInt(x) THEN Return(x)
    ELSE IF IsInstanceFloat(x)
    THEN LET i == py_int(x)
         IN  IF i.raised # "none" THEN i
             ELSE IF IntEqFloat(i.ret, x) THEN i
             ELSE Return(x)
    ELSE LET i == py_int(x)
         IN  IF i.raised # "ValueError" THEN i
             ELSE LET f == py_float(x)
                  IN  IF f.raised # "ValueError" THEN f
                      ELSE Return(x)

(***************************************************************************)
(* Paths and the file system                                               *)
(***************************************************************************)
\* A path is a sequence of tokens; "/" separates directories.
Cwd == <<"/", "home">>
PathTwice ==
    <<"/", "realization-", "3", "/", "realization-", "1", "2", "/", "iter-0">>
PathRelative == <<"realization-", "5">>
PathNoDigits == <<"/", "scratch", "/", "realization-", "/", "iter-0">>
PathOther == <<"/", "scratch", "/", "real-", "3">>
Paths == {PathTwice, PathRelative, PathNoDigits, PathOther}

StatusName == <<"STATUS">>
JobsName == <<"jobs", ".", "json">>
ParamsName == <<"parameters", ".", "txt">>
TopNames == {StatusName, JobsName, ParamsName}
ModelSub == <<"eclipse/model">>
ModelNames ==
    {<<"A", ".", "UNSMRY">>, <<"B", ".", "UNSMRY">>, <<"A", ".", "SMSPEC">>}

os_path_abspath(p) == IF p # <<>> /\ p[1] = "/" THEN p ELSE Cwd \o <<"/">> \o p
os_path_join(d, rel) == d \o <<"/">> \o rel

\* os.path.exists, for a path inside the realization directory
os_path_exists(fp) ==
    \E d \in {path, os_path_abspath(path)} :
        \/ \E n \in topdir : fp = os_path_join(d, n)
        \/ \E i \in 1..Len(modeldir) :
              fp = os_path_join(d, os_path_join(ModelSub, modeldir[i]))

\* fnmatch of a file name against *.UNSMRY
MatchesUnsmry(n) ==
    Len(n) >= 2 /\ n[Len(n)] = "UNSMRY" /\ n[Len(n) - 1] = "."

\* glob.glob(os.path.join(d, 'eclipse/model', '*.UNSMRY')): listing order
Glob(d) ==
    LET hits == SelectSeq(modeldir, MatchesUnsmry)
    IN  [i \in 1..Len(hits) |-> os_path_join(d, os_path_join(ModelSub, hits[i]))]

(***************************************************************************)
(* realidxregexp = .*realization-(\d+), applied with re.match              *)
(***************************************************************************)
\* positions where "realization-" is followed by a digit
MatchPositions(p) ==
    {i \in 1..(Len(p) - 1) : p[i] = "realization-" /\ p[i + 1] \in Digit}
re_match(p) == MatchPositions(p) # {}
\* the greedy .* leaves the last such position to the literal
MatchPos(p) == CHOOSE i \in MatchPositions(p) : \A j \in MatchPositions(p) : j <= i
RECURSIVE DigitRun(_, _)
DigitRun(p, i) ==
    IF i <= Len(p) /\ p[i] \in Digit THEN <<p[i]>> \o DigitRun(p, i + 1) ELSE <<>>
\* int(realidxmatch.group(1))
MatchIndex(p) == DigitsValue(DigitRun(p, MatchPos(p) + 1))

(***************************************************************************)
(* ScratchRealization.__init__                                             *)
(***************************************************************************)
NoneH == <<>>
NoIndex == -1
Row(local, type, full) ==
    [LOCALPATH |-> local, FILETYPE |-> type, FULLPATH |-> full, BASENAME |-> "NaN"]

\* a plausible slip: the STATUS test dropped, the row appended regardless
StatusStepUnchecked(abspath, fs) ==
    [raised |-> "none",
     files |-> <<Row(StatusName, "STATUS", os_path_join(abspath, StatusName))>>]

\* lines 79-89: the mandatory STATUS file
StatusStep(abspath, fs) ==
    IF StatusName \in fs
    THEN [raised |-> "none",
          files |-> <<Row(StatusName, "STATUS", os_path_join(abspath, StatusName))>>]
    ELSE [raised |-> "ValueError", files |-> <<>>]

\* a plausible slip: jobs.json registered without looking for it
OptionalStepAlways(rows, abspath, fs, name, type) ==
    Append(rows, Row(name, type, os_path_join(abspath, name)))

\* lines 90-102: an optional file is registered when it is there
OptionalStep(rows, abspath, fs, name, type) ==
    IF name \in fs
    THEN Append(rows, Row(name, type, os_path_join(abspath, name)))
    ELSE rows

\* the whole constructor, for path p and directory content fs
ScratchRealization_init(p, fs) ==
    LET abspath == os_path_abspath(p)
    IN  IF ~re_match(abspath)
        THEN [raised |-> "ValueError", index |-> NoIndex, files |-> <<>>]
        ELSE LET st == StatusStep(abspath, fs)
             IN  IF st.raised # "none"
                 THEN [raised |-> st.raised, index |-> NoIndex, files |-> <<>>]
                 ELSE [raised |-> "none",
                       index |-> MatchIndex(abspath),
                       files |-> OptionalStep(
                                    OptionalStep(st.files, abspath, fs,
                                                 JobsName, "json"),
                                    abspath, fs, ParamsName, "txt")]

(***************************************************************************)
(* get_parameters and the parameters property                              *)
(***************************************************************************)
IsParamsRow(r) == r.LOCALPATH = ParamsName
IsUnsmryRow(r) == r.FILETYPE = "UNSMRY"

\* truth value of the convert_numeric argument; the property hands over the
\* instance itself, and the class defines neither __bool__ nor __len__
Truthy(arg) == arg \in {"True", "self"}

KeysOfLines(lines) == {lines[i].key : i \in 1..Len(lines)}
\* pd.read_table(...)[1].to_dict(): the last line of a key wins
to_dict(lines) ==
    [k \in KeysOfLines(lines) |->
        LET i == CHOOSE i \in 1..Len(lines) :
                    /\ lines[i].key = k
                    /\ \A j \in (i + 1)..Len(lines) : lines[j].key # k
        IN  TextV(lines[i].raw)]

\* a plausible slip: the conversion loop left out
ConvertNever(params, convert_numeric) ==
    [raised |-> "none", params |-> params]

\* lines 130-132: each value through parse_number when convert_numeric holds
Convert(params, convert_numeric) ==
    IF ~Truthy(convert_numeric)
    THEN [raised |-> "none", params |-> params]
    ELSE IF \E k \in DOMAIN params : parse_number(params[k]).raised # "none"
    THEN LET k == CHOOSE k \in DOMAIN params :
                     parse_number(params[k]).raised # "none"
         IN  [raised |-> parse_number(params[k]).raised, params |-> <<>>]
    ELSE [raised |-> "none",
          params |-> [k \in DOMAIN params |-> parse_number(params[k]).ret]]

\* lines 124-133
get_parameters(convert_numeric) ==
    LET paramfile == SelectSeq(files, IsParamsRow)
    IN  IF Len(paramfile) = 0
        THEN [raised |-> "IndexError", params |-> <<>>]
        ELSE IF ~os_path_exists(paramfile[1].FULLPATH)
        THEN [raised |-> "IOError", params |-> <<>>]
        ELSE Convert(to_dict(paramlines), convert_numeric)

(***************************************************************************)
(* get_eclsum                                                              *)
(***************************************************************************)
\* ert.ecl.EclSum(filename): the handle stands for the file it decoded
EclSum(filename) == filename
HasHandle(h) == h # NoneH

Resolved(fn) == [raised |-> "none", filename |-> fn]

\* a plausible slip: any registered summary file is taken, not exactly one
ResolveAnyRegistered(rows, origpath) ==
    IF Len(rows) >= 1
    THEN Resolved(rows[1].FULLPATH)
    ELSE IF Glob(origpath) = <<>>
    THEN [raised |-> "IndexError", filename |-> <<>>]
    ELSE Resolved(Glob(origpath)[1])

\* lines 154-160: the registered file, or the first result of the glob
ResolveUnsmry(rows, origpath) ==
    IF Len(rows) = 1
    THEN Resolved(rows[1].FULLPATH)
    ELSE IF Glob(origpath) = <<>>
    THEN [raised |-> "IndexError", filename |-> <<>>]
    ELSE Resolved(Glob(origpath)[1])

Outcome(r, h, c, fn, d) ==
    [raised |-> r, ret |-> h, cache |-> c, resolved |-> fn, decoded |-> d]

\* a plausible slip: the handle is returned but not kept
DecodeWithoutCaching(fn) == Outcome("none", EclSum(fn), NoneH, fn, fn)

\* lines 163-165
DecodeAndCache(fn) == Outcome("none", EclSum(fn), EclSum(fn), fn, fn)

\* a plausible slip: the failure is remembered in the cache field
MissingFileMemoized(fn) == Outcome("none", NoneH, <<"no data">>, fn, <<>>)

\* lines 161-162
MissingFile(fn) == Outcome("none", NoneH, eclsum, fn, <<>>)

\* lines 150-165
get_eclsum ==
    IF HasHandle(eclsum)
    THEN Outcome("none", eclsum, eclsum, <<>>, <<>>)
    ELSE LET r == ResolveUnsmry(SelectSeq(files, IsUnsmryRow), path)
         IN  IF r.raised # "none"
             THEN Outcome(r.raised, NoneH, eclsum, <<>>, <<>>)
             ELSE IF ~os_path_exists(r.filename)
             THEN MissingFile(r.filename)
             ELSE DecodeAndCache(r.filename)

(***************************************************************************)
(* get_smryvalues                                                          *)
(***************************************************************************)
Vectors == {"FOPT", "FOPR", "WOPR"}
\* EclSum.keys(pattern) of the decoder, for the patterns used here
keys(pattern) ==
    CASE pattern = "<None>" -> Vectors
      [] pattern = "*" -> Vectors
      [] pattern = "FO*" -> {"FOPT", "FOPR"}
      [] pattern = "W*" -> {"WOPR"}
      [] pattern \in Vectors -> {pattern}
      [] OTHER -> {}

NoWildcard == [kind |-> "none", pats |-> <<>>]
Wildcards ==
    {NoWildcard,
     [kind |-> "str", pats |-> <<"FO*">>],
     [kind |-> "list", pats |-> <<"FOPT", "W*">>],
     [kind |-> "list", pats |-> <<>>]}

\* lines 184-187
Patterns(props_wildcard) ==
    IF props_wildcard.pats = <<>> THEN <<"<None>">> ELSE props_wildcard.pats

EmptyTable == [columns |-> {}, rows |-> "none"]

\* lines 178-198; sum is the outcome of the get_eclsum call of line 179
get_smryvalues(props_wildcard) ==
    LET sum == IF ~HasHandle(eclsum) THEN get_eclsum
               ELSE Outcome("none", eclsum, eclsum, <<>>, <<>>)
        pats == Patterns(props_wildcard)
    IN  IF sum.raised # "none"
        THEN [sum |-> sum, raised |-> sum.raised, table |-> EmptyTable]
        ELSE IF ~HasHandle(sum.cache)
        THEN [sum |-> sum, raised |-> "none", table |-> EmptyTable]
        ELSE [sum |-> sum, raised |-> "none",
              table |-> [columns |-> UNION {keys(pats[i]) : i \in 1..Len(pats)},
                         rows |-> "report dates"]]

(***************************************************************************)
(* Inputs                                                                  *)
(***************************************************************************)
Alphabet == {"0", "3", "5", ".", "-", "a"}
BoundedTexts == UNION {[1..k -> Alphabet] : k \in 0..MaxLen}
SampleTexts ==
    {<<"a", "b", "c">>, <<"h", "e", "l", "l", "o">>, <<"i", "n", "f">>,
     <<"-", "i", "n", "f">>, <<"n", "a", "n">>, <<" ", "3">>, <<"3", " ">>,
     <<"+", "3">>, <<"2", ".", "5", "0">>, <<"1", "2", ".", "0", "0">>}
ParseInputs ==
    {TextV(t) : t \in BoundedTexts \cup SampleTexts}
    \cup {IntV(n) : n \in {-5, 0, 5}}
    \cup {BoolV(1)}
    \cup {FloatV(2, 1), FloatV(35, 10), FloatV(-25, 10),
          FloatV(-4, 1), FloatV(0, 1)}
    \cup {NonFiniteV(c) : c \in {"inf", "-inf", "nan"}}
    \cup {NoneV, ListV}

T1 == <<"1">>
T25 == <<"2", ".", "5">>
THello == <<"h", "e", "l", "l", "o">>
T30 == <<"3", ".", "0">>
ParamKeys == {"A", "B", "C"}
RawTexts == {T1, T25, THello, T30}
ParamLine == [key : ParamKeys, raw : RawTexts]
SampleFile ==
    <<[key |-> "A", raw |-> T1], [key |-> "B", raw |-> T25],
      [key |-> "C", raw |-> THello]>>
ParamFiles == UNION {[1..n -> ParamLine] : n \in 1..MaxLines} \cup {SampleFile}

Listings ==
    {l \in UNION {[1..n -> ModelNames] : n \in 0..Cardinality(ModelNames)} :
        \A i, j \in 1..Len(l) : i # j => l[i] # l[j]}

(***************************************************************************)
(* State machine                                                           *)
(***************************************************************************)
Pending == [raised |-> "pending", ret |-> NoneV]
NoParams == <<>>

Last(op, arg, raised, sum, params, table) ==
    [op |-> op, arg |-> arg, raised |-> raised,
     cacheBefore |-> eclsum, filesBefore |-> files,
     resolved |-> sum.resolved, decoded |-> sum.decoded, retHandle |-> sum.ret,
     retParams |-> params, retTable |-> table]
NoSum == Outcome("none", NoneH, NoneH, <<>>, <<>>)
EnvLast == Last("env", "", "none", NoSum, NoParams, EmptyTable)

IdleRealization ==
    /\ constructed = FALSE
    /\ index = NoIndex
    /\ files = <<>>
    /\ eclsum = NoneH
    /\ ndecodes = 0
    /\ missed = <<>>
    /\ atctor = {}
    /\ last = [op |-> "none", arg |-> "", raised |-> "none",
               cacheBefore |-> NoneH, filesBefore |-> <<>>,
               resolved |-> <<>>, decoded |-> <<>>, retHandle |-> NoneH,
               retParams |-> NoParams, retTable |-> EmptyTable]

Init ==
    /\ path \in Paths
    /\ topdir \in SUBSET TopNames
    /\ modeldir \in Listings
    /\ paramlines = SampleFile
    /\ IdleRealization
    /\ value = NoneV
    /\ presult = Pending

\* r = ScratchRealization(path)
Construct ==
    /\ ~constructed
    /\ LET r == ScratchRealization_init(path, topdir)
       IN  /\ constructed' = (r.raised = "none")
           /\ index' = r.index
           /\ files' = r.files
           /\ last' = Last("__init__", "", r.raised, NoSum, NoParams, EmptyTable)
    /\ eclsum' = NoneH
    /\ atctor' = topdir
    /\ UNCHANGED <<path, topdir, modeldir, paramlines, ndecodes, missed,
                   value, presult>>

\* r.get_parameters(convert_numeric)
GetParameters ==
    /\ constructed
    /\ \E arg \in {"True", "False"} :
          LET r == get_parameters(arg)
          IN  last' = Last("get_parameters", arg, r.raised, NoSum,
                           r.params, EmptyTable)
    /\ UNCHANGED <<path, topdir, modeldir, paramlines, constructed, index,
                   files, eclsum, ndecodes, missed, atctor, value, presult>>

\* r.parameters: line 108 hands the instance over as convert_numeric
ParametersProperty ==
    /\ constructed
    /\ LET r == get_parameters("self")
       IN  last' = Last("parameters", "self", r.raised, NoSum,
                        r.params, EmptyTable)
    /\ UNCHANGED <<path, topdir, modeldir, paramlines, constructed, index,
                   files, eclsum, ndecodes, missed, atctor, value, presult>>

\* what a call that went through get_eclsum leaves behind
SummaryEffects(sum) ==
    /\ sum.decoded # <<>> => ndecodes < MaxDecodes
    /\ eclsum' = sum.cache
    /\ ndecodes' = IF sum.decoded # <<>> THEN ndecodes + 1 ELSE ndecodes
    /\ missed' = IF sum.raised = "none" /\ sum.resolved # <<>>
                    /\ sum.decoded = <<>>
                 THEN sum.resolved ELSE missed

\* r.get_eclsum()
GetEclsum ==
    /\ constructed
    /\ LET sum == get_eclsum
       IN  /\ SummaryEffects(sum)
           /\ last' = Last("get_eclsum", "", sum.raised, sum, NoParams, EmptyTable)
    /\ UNCHANGED <<path, topdir, modeldir, paramlines, constructed, index,
                   files, atctor, value, presult>>

\* r.get_smryvalues(props_wildcard)
GetSmryvalues ==
    /\ constructed
    /\ \E w \in Wildcards :
          LET r == get_smryvalues(w)
          IN  /\ SummaryEffects(r.sum)
              /\ last' = Last("get_smryvalues", w.kind, r.raised, r.sum,
                              NoParams, r.table)
    /\ UNCHANGED <<path, topdir, modeldir, paramlines, constructed, index,
                   files, atctor, value, presult>>

\* explicit discovery by the caller: a summary file found on disk is
\* appended to the public files table
Discover ==
    /\ constructed
    /\ \E i \in 1..Len(modeldir) :
          LET local == os_path_join(ModelSub, modeldir[i])
              full == os_path_join(os_path_abspath(path), local)
          IN  /\ MatchesUnsmry(modeldir[i])
              /\ \A j \in 1..Len(files) : files[j].FULLPATH # full
              /\ files' = Append(files, Row(local, "UNSMRY", full))
    /\ last' = EnvLast
    /\ UNCHANGED <<path, topdir, modeldir, paramlines, constructed, index,
                   eclsum, ndecodes, missed, atctor, value, presult>>

\* the simulation run, or an operator, writes a file
CreateFile ==
    /\ \/ \E n \in TopNames \ topdir :
             /\ topdir' = topdir \cup {n}
             /\ modeldir' = modeldir
       \/ \E n \in ModelNames, i \in 1..(Len(modeldir) + 1) :
             /\ \A j \in 1..Len(modeldir) : modeldir[j] # n
             /\ modeldir' = SubSeq(modeldir, 1, i - 1) \o <<n>>
                            \o SubSeq(modeldir, i, Len(modeldir))
             /\ topdir' = topdir
    /\ last' = EnvLast
    /\ UNCHANGED <<path, paramlines, constructed, index, files, eclsum,
                   ndecodes, missed, atctor, value, presult>>

\* a file is removed
RemoveFile ==
    /\ \/ \E n \in topdir :
             /\ topdir' = topdir \ {n}
             /\ modeldir' = modeldir
       \/ \E i \in 1..Len(modeldir) :
             /\ modeldir' = SubSeq(modeldir, 1, i - 1)
                            \o SubSeq(modeldir, i + 1, Len(modeldir))
             /\ topdir' = topdir
    /\ last' = EnvLast
    /\ UNCHANGED <<path, paramlines, constructed, index, files, eclsum,
                   ndecodes, missed, atctor, value, presult>>

Next ==
    \/ Construct
    \/ GetParameters
    \/ ParametersProperty
    \/ GetEclsum
    \/ GetSmryvalues
    \/ Discover
    \/ CreateFile
    \/ RemoveFile

Spec == Init /\ [][Next]_vars

\* the constructor and the three accessors, with no explicit discovery
NextAccessors ==
    \/ Construct
    \/ GetParameters
    \/ ParametersProperty
    \/ GetEclsum
    \/ GetSmryvalues
    \/ CreateFile
    \/ RemoveFile

SpecAccessors == Init /\ [][NextAccessors]_vars

\* reading parameters.txt, over the enumerated file contents
InitParams ==
    /\ path = PathTwice
    /\ topdir \in {{StatusName, ParamsName}, TopNames}
    /\ modeldir = <<>>
    /\ paramlines \in ParamFiles
    /\ IdleRealization
    /\ value = NoneV
    /\ presult = Pending

NextParams ==
    \/ Construct
    \/ GetParameters
    \/ ParametersProperty

SpecParams == InitParams /\ [][NextParams]_vars

\* parse_number applied to each enumerated value
InitParse ==
    /\ path = PathTwice
    /\ topdir = {}
    /\ modeldir = <<>>
    /\ paramlines = SampleFile
    /\ IdleRealization
    /\ value \in ParseInputs
    /\ presult = Pending

ParseNumber ==
    /\ presult = Pending
    /\ presult' = parse_number(value)
    /\ UNCHANGED <<realvars, value>>

NextParse == ParseNumber

SpecParse == InitParse /\ [][NextParse]_vars

(***************************************************************************)
(* Properties                                                              *)
(***************************************************************************)
Accessors == {"get_parameters", "parameters", "get_eclsum", "get_smryvalues"}
SummaryCalls == {"get_eclsum", "get_smryvalues"}
HasRow(name) == \E i \in 1..Len(files) : files[i].LOCALPATH = name
UnsmryRows == SelectSeq(files, IsUnsmryRow)

\* C1: the constructor raises and leaves the caller without an object, and
\* without any registered file, whenever the index pattern does not match
\* the absolute path or the directory holds no STATUS file, whatever the
\* presence of jobs.json and parameters.txt.
C1_ConstructionFails ==
    /\ (last.op = "__init__"
        /\ (~re_match(os_path_abspath(path)) \/ StatusName \notin atctor))
       => /\ last.raised = "ValueError"
          /\ ~constructed
          /\ files = <<>>
          /\ index = NoIndex
    /\ constructed => re_match(os_path_abspath(path)) /\ StatusName \in atctor

C1_Witness ==
    /\ last.op = "__init__"
    /\ last.raised = "ValueError"
    /\ re_match(os_path_abspath(path))
    /\ atctor = {JobsName, ParamsName}

\* C2: once constructed, and after any accessor calls, the registry holds
\* exactly one STATUS row, a jobs.json (parameters.txt) row exactly when
\* that file was there at construction, no two rows with the same path,
\* and an accessor leaves the registry as it found it.
C2_Registry ==
    constructed =>
        /\ Cardinality({i \in 1..Len(files) : files[i].FILETYPE = "STATUS"}) = 1
        /\ HasRow(StatusName)
        /\ HasRow(JobsName) <=> JobsName \in atctor
        /\ HasRow(ParamsName) <=> ParamsName \in atctor
        /\ \A i, j \in 1..Len(files) :
              i # j => files[i].FULLPATH # files[j].FULLPATH
        /\ last.op \in Accessors => files = last.filesBefore

C2_Witness ==
    /\ constructed
    /\ last.op = "get_smryvalues"
    /\ atctor = {StatusName, ParamsName}
    /\ topdir = {StatusName, JobsName}
    /\ Len(files) = 2

\* C3: the decoder is called at most once on an instance; a call that finds
\* a cached handle returns that handle and decodes nothing, and a call that
\* decodes leaves the handle in the cache.
C3_DecodeOnce ==
    /\ ndecodes <= 1
    /\ (last.op \in SummaryCalls /\ HasHandle(last.cacheBefore))
       => /\ last.decoded = <<>>
          /\ eclsum = last.cacheBefore
          /\ last.retHandle = last.cacheBefore
    /\ (last.op \in SummaryCalls /\ last.decoded # <<>>)
       => /\ eclsum = EclSum(last.decoded)
          /\ last.retHandle = eclsum

C3_Witness ==
    /\ ndecodes = 1
    /\ last.op = "get_smryvalues"
    /\ HasHandle(last.cacheBefore)
    /\ os_path_exists(last.cacheBefore)
    /\ last.retTable.columns # {}

\* C4: get_smryvalues on a realization without any summary file (no UNSMRY
\* row, nothing matching the glob) returns an empty table and raises nothing.
C4_EmptyTableWhenNoSummary ==
    (/\ last.op = "get_smryvalues"
     /\ ~HasHandle(last.cacheBefore)
     /\ Len(UnsmryRows) = 0
     /\ Glob(path) = <<>>)
    => last.raised = "none" /\ last.retTable = EmptyTable

\* the real a text denotes has no fractional part
WholeText(t) == FloatValue(t).cls = "finite" /\ FloatValue(t).den = 1
CoveredByC5(x) ==
    \/ x.kind \in {"str", "int"}
    \/ x.kind = "float" /\ x.cls = "finite"

\* C5 as stated: integer text gives the integer, whole real text gives the
\* INTEGER, fractional real text the real, other text itself, a whole real
\* its integer, an integer itself.
C5_AsStated ==
    (presult # Pending /\ CoveredByC5(value)) =>
        /\ presult.raised = "none"
        /\ presult.ret =
              CASE value.kind = "int" -> value
                [] value.kind = "float" ->
                      IF value.den = 1 THEN IntV(value.num) ELSE value
                [] value.kind = "str" /\ IntParses(value.s) ->
                      IntV(IntValue(value.s))
                [] value.kind = "str" /\ ~IntParses(value.s)
                      /\ FloatParses(value.s) ->
                      IF WholeText(value.s)
                      THEN IntV(FloatValue(value.s).num)
                      ELSE FloatValue(value.s)
                [] OTHER -> value

\* C5 amended: integer text gives the integer; text that parses as a real,
\* with or without a fractional part, gives that real ("3.0" gives the
\* real 3.0, "3.5" the real 3.5); other text is returned unchanged; a
\* whole real input gives its integer; an integer input gives itself.
C5_ParseNumber ==
    (presult # Pending /\ CoveredByC5(value)) =>
        /\ presult.raised = "none"
        /\ presult.ret =
              CASE value.kind = "int" -> value
                [] value.kind = "float" ->
                      IF value.den = 1 THEN IntV(value.num) ELSE value
                [] value.kind = "str" /\ IntParses(value.s) ->
                      IntV(IntValue(value.s))
                [] value.kind = "str" /\ ~IntParses(value.s)
                      /\ FloatParses(value.s) ->
                      FloatValue(value.s)
                [] OTHER -> value
        /\ value = TextV(<<"3">>) => presult.ret = IntV(3)
        /\ value = TextV(<<"3", ".", "0">>) => presult.ret = FloatV(3, 1)
        /\ value = TextV(<<"3", ".", "5">>) => presult.ret = FloatV(35, 10)
        /\ value = TextV(<<"a", "b", "c">>) => presult.ret = value
        /\ value = FloatV(2, 1) => presult.ret = IntV(2)
        /\ value = IntV(5) => presult.ret = IntV(5)

C5_Witness ==
    /\ value = TextV(<<"3", ".", "0">>)
    /\ presult = Return(FloatV(3, 1))

\* C6: parse_number raises for no input: it returns an integer, a real or
\* the value it was given.
C6_NeverRaises ==
    presult # Pending =>
        /\ presult.raised = "none"
        /\ presult.ret.kind \in {"int", "float"} \/ presult.ret = value

\* raw text of the last line of parameters.txt that starts with key k
RawOf(k) ==
    LET i == CHOOSE i \in 1..Len(paramlines) :
                /\ paramlines[i].key = k
                /\ \A j \in (i + 1)..Len(paramlines) : paramlines[j].key # k
    IN  paramlines[i].raw

C8_DedicatedError ==
    (last.op \in {"get_parameters", "parameters"} /\ ~HasRow(ParamsName)) =>
        /\ last.raised = "NoParametersFileError"
        /\ files = last.filesBefore
        /\ eclsum = last.cacheBefore

\* C9: a get_eclsum call whose resolved file is missing returns None, raises
\* nothing and leaves the cache empty; a call made once the file is there
\* decodes it, caches the handle and returns it; nothing but a call decodes.
C9_MissingNotMemoized ==
    /\ (last.op = "get_eclsum" /\ ~HasHandle(last.cacheBefore)
        /\ last.resolved # <<>>)
       => /\ last.raised = "none"
          /\ IF os_path_exists(last.resolved)
             THEN /\ last.decoded = last.resolved
                  /\ eclsum = EclSum(last.resolved)
                  /\ last.retHandle = eclsum
             ELSE /\ last.decoded = <<>>
                  /\ eclsum = NoneH
                  /\ last.retHandle = NoneH
    /\ last.op \notin SummaryCalls
       => eclsum = last.cacheBefore /\ last.decoded = <<>>
    /\ (eclsum = NoneH) <=> (ndecodes = 0)

C9_Witness ==
    /\ last.op = "get_eclsum"
    /\ missed # <<>>
    /\ last.decoded = missed
    /\ eclsum = EclSum(missed)

\* C10: on a cache miss get_eclsum takes the registered file exactly when
\* the registry holds one UNSMRY row; with none, or with two or more, it
\* takes the first result of the glob, silently, whatever is registered.
C10_Resolution ==
    (last.op = "get_eclsum" /\ ~HasHandle(last.cacheBefore)) =>
        /\ Len(UnsmryRows) = 1
           => /\ last.raised = "none"
              /\ last.resolved = UnsmryRows[1].FULLPATH
        /\ (Len(UnsmryRows) # 1 /\ Glob(path) # <<>>)
           => /\ last.raised = "none"
              /\ last.resolved = Glob(path)[1]
              /\ last.decoded = Glob(path)[1]
        /\ last.decoded # <<>> => last.decoded = last.resolved

C10_Witness ==
    /\ last.op = "get_eclsum"
    /\ ~HasHandle(last.cacheBefore)
    /\ Len(UnsmryRows) = 2
    /\ Len(Glob(path)) = 2
    /\ last.decoded = Glob(path)[1]
    /\ UnsmryRows[1].FULLPATH # Glob(path)[1]
    /\ UnsmryRows[1].FULLPATH = Glob(path)[2]

====
